---- MODULE Spec2Model ----
(***************************************************************************)
(* A model of strava.py: the lazy resource-graph loader                    *)
(*   Athlete -> Ride -> {RideDetail, Segment -> SegmentDetail}.            *)
(* Python objects are records; None is the empty tuple and a reference to  *)
(* an object is the one-element tuple holding it, so that "not x" is       *)
(* x = <<>> for the lazily filled fields. Object identity is the field     *)
(* oid, drawn from the allocation counter nextOid.                         *)
(***************************************************************************)
EXTENDS Integers, Sequences, FiniteSets, TLC

VARIABLES
    athlete,    \* the Athlete instance: [_id, _url]
    heap,       \* the Ride instances the caller holds, in creation order
    obs,        \* per Ride instance, what the caller and the transport saw
    nextOid,    \* next object identity to hand out
    last,       \* the most recent call: its inputs, outcome and requests
    recent,     \* the latest two rides() calls, oldest first
    calls,      \* rides() calls made and listing GETs issued so far
    nops        \* number of operations performed so far

vars == <<athlete, heap, obs, nextOid, last, recent, calls, nops>>

\* ------------------------------------------------------------------ bounds

MaxOps == 4
MaxCalls == 2
MaxHeap == 2
MaxListing == 2
MaxEfforts == 2

\* ------------------------------------------------------------- the service

None == <<>>

AthleteIds == {103227}

\* Entries of the list stored under "rides"; the last one lacks "name".
RideEntries ==
    { [id |-> 42, name |-> "Morning"],
      [id |-> 7, name |-> "Evening"],
      [id |-> 42] }

\* Values stored under "ride".
RidePayloads ==
    { [movingTime |-> 120, distance |-> 1000],
      [movingTime |-> 180, distance |-> 2000] }

\* Entries of the list stored under "efforts"; the last lacks "elapsed_time".
EffortEntries ==
    { [id |-> 5, elapsed_time |-> 42, segment |-> [id |-> 9, name |-> "Hill"]],
      [id |-> 6, elapsed_time |-> 30, segment |-> [id |-> 7, name |-> "Flat"]],
      [id |-> 8, segment |-> [id |-> 7, name |-> "Flat"]] }

\* Values stored under "effort" and under "segment".
EffortPayloads == { [elapsedTime |-> 42, movingTime |-> 40] }

SegmentPayloads == { [distance |-> 500, averageGrade |-> 3] }

SeqsUpTo(S, n) == UNION { [1..k -> S] : k \in 0..n }

Keys == {"rides", "ride", "efforts", "effort", "segment"}

\* Response bodies: text that is no JSON, or the text of a JSON document.
NotJson == [valid |-> FALSE, doc |-> None]

Text(doc) == [valid |-> TRUE, doc |-> doc]

Mapping(f) == [shape |-> "mapping", v |-> f]

Sequence == [shape |-> "sequence", v |-> <<>>]

Scalar == [shape |-> "scalar", v |-> 0]

\* What urlopen/read can do: HTTPError (non-success status), URLError
\* (connection-level failure), or a body.
HTTPErrorRsp == [kind |-> "HTTPError", txt |-> NotJson]

URLErrorRsp == [kind |-> "URLError", txt |-> NotJson]

Body(txt) == [kind |-> "body", txt |-> txt]

FailureRsps ==
    { HTTPErrorRsp, URLErrorRsp, Body(NotJson),
      Body(Text(Mapping("error" :> "not found"))),
      Body(Text(Sequence)) }

Responses(key, payloads) ==
    FailureRsps \cup { Body(Text(Mapping(key :> p))) : p \in payloads }

\* --------------------------------------------------------- StravaObject.load

json_loads(txt) ==
    IF txt.valid THEN [exc |-> "none", val |-> txt.doc]
    ELSE [exc |-> "ValueError", val |-> None]

\* json.loads(txt)[key]: a dict raises KeyError for an absent key, a list or
\* a scalar raises TypeError for a string subscript.
Subscript(doc, key) ==
    IF doc.shape = "mapping"
    THEN IF key \in DOMAIN doc.v
         THEN [exc |-> "none", val |-> doc.v[key]]
         ELSE [exc |-> "KeyError", val |-> None]
    ELSE [exc |-> "TypeError", val |-> None]

\* except urllib2.HTTPError: the first try block.
RequestCaught(kind) == kind = "HTTPError"

\* except (ValueError, KeyError): the second try block.
ParseCaught(exc) == exc \in {"ValueError", "KeyError"}

\* load asking the service a second time when the request or the decoding
\* failed.
loadRetry(url, key, rsp) ==
    LET g == [url |-> url, rsp |-> rsp]
    IN  IF rsp.kind # "body"
        THEN [exc |-> IF RequestCaught(rsp.kind) THEN "APIError" ELSE rsp.kind,
              val |-> None, gets |-> <<g, g>>]
        ELSE LET d == json_loads(rsp.txt)
                 s == IF d.exc = "none" THEN Subscript(d.val, key) ELSE d
             IN  [exc |-> IF s.exc = "none" THEN "none"
                          ELSE IF ParseCaught(s.exc) THEN "APIError" ELSE s.exc,
                  val |-> s.val,
                  gets |-> IF s.exc = "none" THEN <<g>> ELSE <<g, g>>]

load(url, key, rsp) ==
    IF rsp.kind # "body"
    THEN [exc |-> IF RequestCaught(rsp.kind) THEN "APIError" ELSE rsp.kind,
          val |-> None, gets |-> <<[url |-> url, rsp |-> rsp]>>]
    ELSE LET d == json_loads(rsp.txt)
             s == IF d.exc = "none" THEN Subscript(d.val, key) ELSE d
         IN  [exc |-> IF s.exc = "none" THEN "none"
                      ELSE IF ParseCaught(s.exc) THEN "APIError" ELSE s.exc,
              val |-> s.val, gets |-> <<[url |-> url, rsp |-> rsp]>>]

\* ------------------------------------------------------------ the objects

\* A test that takes every field for unset.
AlwaysFalsy(x) == TRUE

\* "not x" for the lazily filled fields: None and the empty list are false,
\* an instance (no __len__, no __nonzero__) and a non-empty list are true.
Falsy(x) == x = <<>>

Athlete(oid) == [_id |-> oid, _url |-> <<"/rides?athleteId=%s", oid>>]

Ride(oid, name) ==
    [_id |-> oid, _name |-> name, _detail |-> None, _segments |-> <<>>]

\* Segment.__init__ reads attr["id"], attr["segment"], attr["elapsed_time"].
SegmentKeys == {"id", "segment", "elapsed_time"}

\* Segment.__init__ taking its id from the embedded segment.
SegmentIdFromSegment(attr, oid) ==
    [oid |-> oid, _id |-> attr.segment.id, _segment |-> attr.segment,
     _time |-> attr.elapsed_time, _detail |-> None]

Segment(attr, oid) ==
    [oid |-> oid, _id |-> attr.id, _segment |-> attr.segment,
     _time |-> attr.elapsed_time, _detail |-> None]

\* RideDetail.__init__: the instance exists only if load returned.
RideDetail(rid, rsp, oid) ==
    LET r == load(<<"/rides/%s", rid>>, "ride", rsp)
    IN  [exc |-> r.exc, gets |-> r.gets,
         obj |-> IF r.exc = "none"
                 THEN <<[oid |-> oid, _id |-> rid, _attr |-> r.val]>>
                 ELSE None]

\* SegmentDetail.__init__: the effort is loaded first, then the segment.
\* SegmentDetail.__init__ issuing both requests before it looks at either
\* answer.
SegmentDetailBoth(segment_id, effort_id, rspE, rspS, oid) ==
    LET e == load(<<"/efforts/%s", effort_id>>, "effort", rspE)
        s == load(<<"/segments/%s", segment_id>>, "segment", rspS)
    IN  IF e.exc # "none"
        THEN [exc |-> e.exc, gets |-> e.gets \o s.gets, obj |-> None]
        ELSE IF s.exc # "none"
        THEN [exc |-> s.exc, gets |-> e.gets \o s.gets, obj |-> None]
        ELSE [exc |-> "none", gets |-> e.gets \o s.gets,
              obj |-> <<[oid |-> oid, _id |-> segment_id,
                         _effort_attr |-> e.val, _segment_attr |-> s.val]>>]

SegmentDetail(segment_id, effort_id, rspE, rspS, oid) ==
    LET e == load(<<"/efforts/%s", effort_id>>, "effort", rspE)
        s == load(<<"/segments/%s", segment_id>>, "segment", rspS)
    IN  IF e.exc # "none"
        THEN [exc |-> e.exc, gets |-> e.gets, obj |-> None]
        ELSE IF s.exc # "none"
        THEN [exc |-> s.exc, gets |-> e.gets \o s.gets, obj |-> None]
        ELSE [exc |-> "none", gets |-> e.gets \o s.gets,
              obj |-> <<[oid |-> oid, _id |-> segment_id,
                         _effort_attr |-> e.val, _segment_attr |-> s.val]>>]

\* Ride.detail (the property): self after the access, what escaped, what was
\* returned, the requests issued and the next free object identity.
\* Ride.detail keeping an attribute-less RideDetail when the construction
\* raised.
Ride_detailKeepsFailure(self, rsp, oid) ==
    IF Falsy(self._detail)
    THEN LET d == RideDetail(self._id, rsp, oid)
         IN  IF d.exc # "none"
             THEN [self |-> [self EXCEPT !._detail =
                               <<[oid |-> oid, _id |-> self._id,
                                  _attr |-> None]>>],
                   exc |-> d.exc, val |-> None,
                   gets |-> d.gets, oid |-> oid + 1]
             ELSE [self |-> [self EXCEPT !._detail = d.obj], exc |-> "none",
                   val |-> d.obj, gets |-> d.gets, oid |-> oid + 1]
    ELSE [self |-> self, exc |-> "none", val |-> self._detail,
          gets |-> <<>>, oid |-> oid]

Ride_detail(self, rsp, oid) ==
    IF Falsy(self._detail)
    THEN LET d == RideDetail(self._id, rsp, oid)
         IN  IF d.exc # "none"
             THEN [self |-> self, exc |-> d.exc, val |-> None,
                   gets |-> d.gets, oid |-> oid]
             ELSE [self |-> [self EXCEPT !._detail = d.obj], exc |-> "none",
                   val |-> d.obj, gets |-> d.gets, oid |-> oid + 1]
    ELSE [self |-> self, exc |-> "none", val |-> self._detail,
          gets |-> <<>>, oid |-> oid]

\* The loop of Ride.segments: one Segment appended per effort, up to the first
\* effort Segment.__init__ cannot read, where KeyError ends the loop.
FirstBad(efforts) ==
    LET bad == { k \in 1..Len(efforts) : ~(SegmentKeys \subseteq DOMAIN efforts[k]) }
    IN  IF bad = {} THEN Len(efforts) + 1
        ELSE CHOOSE k \in bad : \A m \in bad : k <= m

AppendSegments(segs, efforts, oid) ==
    LET n == FirstBad(efforts) - 1
    IN  [segs |-> segs \o [k \in 1..n |-> Segment(efforts[k], oid + k - 1)],
         exc |-> IF n = Len(efforts) THEN "none" ELSE "KeyError",
         oid |-> oid + n]

Ride_segments(self, rsp, oid) ==
    IF Falsy(self._segments)
    THEN LET r == load(<<"/rides/%s/efforts", self._id>>, "efforts", rsp)
             b == AppendSegments(self._segments, r.val, oid)
         IN  IF r.exc # "none"
             THEN [self |-> self, exc |-> r.exc, val |-> None,
                   gets |-> r.gets, oid |-> oid]
             ELSE [self |-> [self EXCEPT !._segments = b.segs],
                   exc |-> b.exc,
                   val |-> IF b.exc = "none" THEN b.segs ELSE None,
                   gets |-> r.gets, oid |-> b.oid]
    ELSE [self |-> self, exc |-> "none", val |-> self._segments,
          gets |-> <<>>, oid |-> oid]

\* Segment.detail (the property).
Segment_detail(self, rspE, rspS, oid) ==
    IF Falsy(self._detail)
    THEN LET d == SegmentDetail(self._segment.id, self._id, rspE, rspS, oid)
         IN  IF d.exc # "none"
             THEN [self |-> self, exc |-> d.exc, val |-> None,
                   gets |-> d.gets, oid |-> oid]
             ELSE [self |-> [self EXCEPT !._detail = d.obj], exc |-> "none",
                   val |-> d.obj, gets |-> d.gets, oid |-> oid + 1]
    ELSE [self |-> self, exc |-> "none", val |-> self._detail,
          gets |-> <<>>, oid |-> oid]

\* date.isoformat() for a date given as the number of days after 2011-12-31:
\* the year, month and day of "YYYY-MM-DD".
MonthLens(y) ==
    <<31, IF y % 4 = 0 THEN 29 ELSE 28, 31, 30, 31, 30, 31, 31, 30, 31, 30, 31>>

RECURSIVE MonthDay(_, _, _)
MonthDay(lens, m, d) ==
    IF d <= lens[m] THEN <<m, d>> ELSE MonthDay(lens, m + 1, d - lens[m])

isoformat(n) ==
    LET y == IF n >= 1 THEN 2012 ELSE 2011
        md == MonthDay(MonthLens(y), 1, IF n >= 1 THEN n ELSE n + 365)
    IN  <<y, md[1], md[2]>>

\* The loop of Athlete.rides: Ride(ride["id"], ride["name"]) per entry.
RideKeys == {"id", "name"}

\* The loop with out.insert(0, ...) for out.append(...).
BuildRidesReversed(listing) ==
    IF \A k \in 1..Len(listing) : RideKeys \subseteq DOMAIN listing[k]
    THEN [exc |-> "none",
          out |-> [k \in 1..Len(listing) |->
                     Ride(listing[Len(listing) + 1 - k].id,
                          listing[Len(listing) + 1 - k].name)]]
    ELSE [exc |-> "KeyError", out |-> <<>>]

BuildRides(listing) ==
    IF \A k \in 1..Len(listing) : RideKeys \subseteq DOMAIN listing[k]
    THEN [exc |-> "none",
          out |-> [k \in 1..Len(listing) |-> Ride(listing[k].id, listing[k].name)]]
    ELSE [exc |-> "KeyError", out |-> <<>>]

\* Athlete.rides(start_date): start_date is None or <<date>>.
\* rides never appending the start date to the path.
ridesUndated(self, start_date, rsp) ==
    LET r == load(self._url, "rides", rsp)
        b == BuildRides(r.val)
    IN  IF r.exc # "none"
        THEN [exc |-> r.exc, out |-> <<>>, gets |-> r.gets]
        ELSE [exc |-> b.exc, out |-> b.out, gets |-> r.gets]

rides(self, start_date, rsp) ==
    LET url == IF Falsy(start_date) THEN self._url
               ELSE self._url \o <<"&startDate=%s", isoformat(start_date[1])>>
        r == load(url, "rides", rsp)
        b == BuildRides(r.val)
    IN  IF r.exc # "none"
        THEN [exc |-> r.exc, out |-> <<>>, gets |-> r.gets]
        ELSE [exc |-> b.exc, out |-> b.out, gets |-> r.gets]

\* A mapping that starts with the three keys stored as zero.
PrefilledStats == [k \in {"rides", "moving_time", "distance"} |-> 0]

\* defaultdict(float): the stored items, and 0.0 for a key that is not stored.
EmptyStats == [k \in {} |-> 0]

Lookup(stats, key) == IF key \in DOMAIN stats THEN stats[key] ELSE 0

\* stats[key] = x
IncrOverwrite(stats, key, x) ==
    [k \in DOMAIN stats \cup {key} |-> IF k = key THEN x ELSE stats[k]]

\* stats[key] += x
Incr(stats, key, x) ==
    [k \in DOMAIN stats \cup {key} |->
        IF k = key THEN Lookup(stats, key) + x ELSE stats[k]]

\* The loop of Athlete.ride_stats over the listed rides rs, from the k-th on.
\* rspD[k] is what the service answers for the k-th ride's detail while the
\* call runs. ride.detail is read twice per ride.
RECURSIVE StatsLoop(_, _, _, _, _)
StatsLoop(rs, rspD, k, stats, gets) ==
    IF k > Len(rs) THEN [exc |-> "none", stats |-> stats, gets |-> gets]
    ELSE LET s1 == Incr(stats, "rides", 1)
             d1 == Ride_detail(rs[k], rspD[k], 2 * k - 1)
             d2 == Ride_detail(d1.self, rspD[k], 2 * k)
         IN  IF d1.exc # "none"
             THEN [exc |-> d1.exc, stats |-> None, gets |-> gets \o d1.gets]
             ELSE IF d2.exc # "none"
             THEN [exc |-> d2.exc, stats |-> None,
                   gets |-> gets \o d1.gets \o d2.gets]
             ELSE StatsLoop(rs, rspD, k + 1,
                     Incr(Incr(s1, "moving_time", d1.val[1]._attr.movingTime),
                          "distance", d2.val[1]._attr.distance),
                     gets \o d1.gets \o d2.gets)

\* Athlete.ride_stats(days), called on the day today.
ride_stats(self, today, days, rspL, rspD) ==
    LET start == today - days
        r == rides(self, <<start>>, rspL)
    IN  IF r.exc # "none"
        THEN [exc |-> r.exc, stats |-> None, gets |-> r.gets]
        ELSE StatsLoop(r.out, rspD, 1, EmptyStats, r.gets)

\* The record of a call: what was called on which instance, its inputs, the
\* exception that escaped it ("none" when it returned), the value returned and
\* the requests it issued, in order.
Call(op, target, in, exc, val, gets) ==
    [op |-> op, target |-> target, in |-> in, exc |-> exc, val |-> val,
     gets |-> gets]

NoCall == Call("init", 0, None, "none", None, <<>>)

\* ------------------------------------------------------------ load, alone

LoadUrls == { <<"/rides/%s", 42>>, <<"/segments/%s", 7>> }

\* Decoded mappings with at most two of the keys, each holding a small value.
LoadMappings ==
    UNION { [K -> {1, 2}] : K \in { S \in SUBSET Keys : Cardinality(S) <= 2 } }

LoadRsps ==
    { HTTPErrorRsp, URLErrorRsp, Body(NotJson), Body(Text(Sequence)),
      Body(Text(Scalar)) }
    \cup { Body(Text(Mapping(f))) : f \in LoadMappings }

InitLoad ==
    /\ athlete \in { Athlete(a) : a \in AthleteIds }
    /\ heap = <<>>
    /\ obs = <<>>
    /\ nextOid = 1
    /\ recent = <<>>
    /\ calls = [rides |-> 0, gets |-> 0]
    /\ nops = 0
    /\ last \in { Call("load?", 0, [url |-> u, key |-> k, rsp |-> r],
                       "none", None, <<>>) :
                  u \in LoadUrls, k \in Keys, r \in LoadRsps }

Load ==
    /\ last.op = "load?"
    /\ LET r == load(last.in.url, last.in.key, last.in.rsp)
       IN  last' = Call("load", 0, last.in, r.exc, r.val, r.gets)
    /\ UNCHANGED <<athlete, heap, obs, nextOid, recent, calls, nops>>

NextLoad == Load

SpecLoad == InitLoad /\ [][NextLoad]_vars

\* --------------------------------------------------------- the whole client

\* Per Segment: reads of detail, reads that issued a request, requests,
\* reads that raised, what they raised, identities returned.
NewSegObs ==
    [sAcc |-> 0, sTries |-> 0, sGets |-> 0, sFail |-> 0, sErr |-> {},
     sRet |-> {}]

\* Per Ride: the same for detail (d) and segments (e), the efforts listing the
\* latest successful load returned, and one record per Segment held.
NewObs ==
    [dAcc |-> 0, dGets |-> 0, dFail |-> 0, dErr |-> {}, dRet |-> {},
     eAcc |-> 0, eGets |-> 0, eFail |-> 0, eRet |-> {},
     eList |-> None, seg |-> <<>>]

\* The service is asked only by a read that finds the field unset; a read
\* that finds it set is given one arbitrary answer, which it never sees.
Asked(field, rsps) ==
    IF Falsy(field) THEN rsps ELSE { CHOOSE r \in rsps : TRUE }

Oids(objs) == [k \in 1..Len(objs) |-> objs[k].oid]

StartDates == { None, <<3>> }

ListingRsps == Responses("rides", SeqsUpTo(RideEntries, MaxListing))

EffortsRsps == Responses("efforts", SeqsUpTo(EffortEntries, MaxEfforts))

Init ==
    /\ athlete \in { Athlete(a) : a \in AthleteIds }
    /\ heap = <<>>
    /\ obs = <<>>
    /\ nextOid = 1
    /\ last = NoCall
    /\ recent = <<>>
    /\ calls = [rides |-> 0, gets |-> 0]
    /\ nops = 0

\* rides() that answers from the previous call's result once there is one.
AthleteRidesMemo ==
    /\ calls.rides < MaxCalls
    /\ \E sd \in StartDates, rsp \in ListingRsps, keep \in BOOLEAN :
         LET r == IF recent = <<>> THEN rides(athlete, sd, rsp)
                  ELSE [exc |-> recent[Len(recent)].exc,
                        out |-> recent[Len(recent)].val, gets |-> <<>>]
             c == Call("rides", 0, [start_date |-> sd], r.exc, r.out, r.gets)
         IN  /\ r.exc # "none" => keep
             /\ Len(r.out) + (IF keep THEN Len(heap) ELSE 0) <= MaxHeap
             /\ heap' = (IF keep THEN heap ELSE <<>>) \o r.out
             /\ obs' = (IF keep THEN obs ELSE <<>>)
                           \o [k \in 1..Len(r.out) |-> NewObs]
             /\ last' = c
             /\ recent' = IF Len(recent) < 2 THEN Append(recent, c)
                          ELSE <<recent[2], c>>
             /\ calls' = [rides |-> calls.rides + 1,
                          gets |-> calls.gets + Len(r.gets)]
    /\ nops' = nops + 1
    /\ UNCHANGED <<athlete, nextOid>>

\* The caller calls athlete.rides(...) and holds on to the Rides returned,
\* beside the ones it already holds or instead of them.
AthleteRides ==
    /\ calls.rides < MaxCalls
    /\ \E sd \in StartDates, rsp \in ListingRsps, keep \in BOOLEAN :
         LET r == rides(athlete, sd, rsp)
             c == Call("rides", 0, [start_date |-> sd], r.exc, r.out, r.gets)
         IN  /\ r.exc # "none" => keep
             /\ Len(r.out) + (IF keep THEN Len(heap) ELSE 0) <= MaxHeap
             /\ heap' = (IF keep THEN heap ELSE <<>>) \o r.out
             /\ obs' = (IF keep THEN obs ELSE <<>>)
                           \o [k \in 1..Len(r.out) |-> NewObs]
             /\ last' = c
             /\ recent' = IF Len(recent) < 2 THEN Append(recent, c)
                          ELSE <<recent[2], c>>
             /\ calls' = [rides |-> calls.rides + 1,
                          gets |-> calls.gets + Len(r.gets)]
    /\ nops' = nops + 1
    /\ UNCHANGED <<athlete, nextOid>>

\* The caller reads heap[i].detail.
RideDetailAccess ==
    /\ nops < MaxOps
    /\ \E i \in 1..Len(heap) :
       \E rsp \in Asked(heap[i]._detail, Responses("ride", RidePayloads)) :
         LET r == Ride_detail(heap[i], rsp, nextOid)
             o == obs[i]
         IN  /\ heap' = [heap EXCEPT ![i] = r.self]
             /\ nextOid' = r.oid
             /\ last' = Call("Ride.detail", i, None, r.exc, r.val, r.gets)
             /\ obs' = [obs EXCEPT ![i] =
                    [o EXCEPT !.dAcc = @ + 1,
                              !.dGets = @ + Len(r.gets),
                              !.dFail = @ + (IF r.exc = "none" THEN 0 ELSE 1),
                              !.dErr = @ \cup ({r.exc} \ {"none"}),
                              !.dRet = @ \cup { r.val[k].oid : k \in 1..Len(r.val) }]]
    /\ nops' = nops + 1
    /\ UNCHANGED <<athlete, recent, calls>>

\* Ride.segments with one list of Segments shared by every Ride (a list kept
\* on the class instead of the instance).
RideSegmentsAccessShared ==
    /\ nops < MaxOps
    /\ \E i \in 1..Len(heap) :
       \E rsp \in Asked(heap[i]._segments, EffortsRsps) :
         LET r == Ride_segments(heap[i], rsp, nextOid)
             o == obs[i]
             new == Len(r.self._segments) - Len(heap[i]._segments)
         IN  /\ heap' = [k \in 1..Len(heap) |->
                           [heap[k] EXCEPT !._segments = r.self._segments]]
             /\ nextOid' = r.oid
             /\ last' = Call("Ride.segments", i, None, r.exc,
                             IF r.exc = "none" THEN Oids(r.val) ELSE None, r.gets)
             /\ obs' = [k \in 1..Len(obs) |->
                    IF k = i
                    THEN [o EXCEPT !.eAcc = @ + 1,
                              !.eGets = @ + Len(r.gets),
                              !.eFail = @ + (IF r.exc = "none" THEN 0 ELSE 1),
                              !.eRet = IF r.exc = "none"
                                       THEN @ \cup { Oids(r.val) } ELSE @,
                              !.eList = IF Len(r.gets) = 1
                                           /\ r.exc \in {"none", "KeyError"}
                                        THEN <<r.gets[1].rsp.txt.doc.v["efforts"]>>
                                        ELSE @,
                              !.seg = @ \o [n \in 1..new |-> NewSegObs]]
                    ELSE [obs[k] EXCEPT
                              !.seg = [n \in 1..Len(r.self._segments) |->
                                          NewSegObs]]]
    /\ nops' = nops + 1
    /\ UNCHANGED <<athlete, recent, calls>>

\* The caller reads heap[i].segments.
RideSegmentsAccess ==
    /\ nops < MaxOps
    /\ \E i \in 1..Len(heap) :
       \E rsp \in Asked(heap[i]._segments, EffortsRsps) :
         LET r == Ride_segments(heap[i], rsp, nextOid)
             o == obs[i]
             new == Len(r.self._segments) - Len(heap[i]._segments)
         IN  /\ heap' = [heap EXCEPT ![i] = r.self]
             /\ nextOid' = r.oid
             /\ last' = Call("Ride.segments", i, None, r.exc,
                             IF r.exc = "none" THEN Oids(r.val) ELSE None, r.gets)
             /\ obs' = [obs EXCEPT ![i] =
                    [o EXCEPT !.eAcc = @ + 1,
                              !.eGets = @ + Len(r.gets),
                              !.eFail = @ + (IF r.exc = "none" THEN 0 ELSE 1),
                              !.eRet = IF r.exc = "none"
                                       THEN @ \cup { Oids(r.val) } ELSE @,
                              !.eList = IF Len(r.gets) = 1
                                           /\ r.exc \in {"none", "KeyError"}
                                        THEN <<r.gets[1].rsp.txt.doc.v["efforts"]>>
                                        ELSE @,
                              !.seg = @ \o [k \in 1..new |-> NewSegObs]]]
    /\ nops' = nops + 1
    /\ UNCHANGED <<athlete, recent, calls>>

\* The caller reads heap[i].segments[j].detail on segments it got earlier.
SegmentDetailAccess ==
    /\ nops < MaxOps
    /\ \E i \in 1..Len(heap) :
       \E j \in 1..Len(heap[i]._segments) :
       \E rspE \in Asked(heap[i]._segments[j]._detail,
                         Responses("effort", EffortPayloads)),
          rspS \in Asked(heap[i]._segments[j]._detail,
                         Responses("segment", SegmentPayloads)) :
         LET r == Segment_detail(heap[i]._segments[j], rspE, rspS, nextOid)
             o == obs[i].seg[j]
         IN  /\ heap' = [heap EXCEPT ![i]._segments[j] = r.self]
             /\ nextOid' = r.oid
             /\ last' = Call("Segment.detail", <<i, j>>, None, r.exc, r.val,
                             r.gets)
             /\ obs' = [obs EXCEPT ![i].seg[j] =
                    [o EXCEPT !.sAcc = @ + 1,
                              !.sTries = @ + (IF r.gets = <<>> THEN 0 ELSE 1),
                              !.sGets = @ + Len(r.gets),
                              !.sFail = @ + (IF r.exc = "none" THEN 0 ELSE 1),
                              !.sErr = @ \cup ({r.exc} \ {"none"}),
                              !.sRet = @ \cup { r.val[k].oid : k \in 1..Len(r.val) }]]
    /\ nops' = nops + 1
    /\ UNCHANGED <<athlete, recent, calls>>

\* Segment.name and Segment.time (the properties).
Segment_name(self) == self._segment.name

Segment_time(self) == self._time

\* The caller reads the name and the time of heap[i].segments[j].
SegmentRead ==
    /\ nops < MaxOps
    /\ \E i \in 1..Len(heap) :
       \E j \in 1..Len(heap[i]._segments) :
         last' = Call("Segment.name,time", <<i, j>>, None, "none",
                      [name |-> Segment_name(heap[i]._segments[j]),
                       time |-> Segment_time(heap[i]._segments[j])],
                      <<>>)
    /\ nops' = nops + 1
    /\ UNCHANGED <<athlete, heap, obs, nextOid, recent, calls>>

Next == AthleteRides

Spec == Init /\ [][Next]_vars

\* ------------------------------------------------------------ one Ride

\* The caller constructs Ride(oid, name) itself.
InitRide ==
    /\ athlete \in { Athlete(a) : a \in AthleteIds }
    /\ heap \in { <<Ride(e.id, e.name)>> :
                    e \in { x \in RideEntries : RideKeys \subseteq DOMAIN x } }
    /\ obs = <<NewObs>>
    /\ nextOid = 1
    /\ last = NoCall
    /\ recent = <<>>
    /\ calls = [rides |-> 0, gets |-> 0]
    /\ nops = 0

NextRide ==
    \/ RideDetailAccess
    \/ RideSegmentsAccess

SpecRide == InitRide /\ [][NextRide]_vars

\* --------------------------------------------------- one Ride, one Segment

\* The caller constructed a Ride and read its segments once, and the service
\* listed one effort: the Ride holds the one Segment built from it.
InitSegment ==
    /\ athlete \in { Athlete(a) : a \in AthleteIds }
    /\ \E e \in { x \in RideEntries : RideKeys \subseteq DOMAIN x },
          f \in { x \in EffortEntries : SegmentKeys \subseteq DOMAIN x } :
         LET r == Ride_segments(Ride(e.id, e.name),
                                Body(Text(Mapping("efforts" :> <<f>>))), 1)
         IN  /\ heap = <<r.self>>
             /\ obs = <<[NewObs EXCEPT !.eAcc = 1, !.eGets = 1,
                                       !.eRet = { Oids(r.val) },
                                       !.eList = << <<f>> >>,
                                       !.seg = <<NewSegObs>>]>>
             /\ nextOid = r.oid
             /\ last = Call("Ride.segments", 1, None, r.exc, Oids(r.val), r.gets)
    /\ recent = <<>>
    /\ calls = [rides |-> 0, gets |-> 0]
    /\ nops = 1

NextSegment ==
    \/ SegmentRead
    \/ SegmentDetailAccess
    \/ RideDetailAccess

SpecSegment == InitSegment /\ [][NextSegment]_vars

\* ------------------------------------------------------- ride_stats, alone

Todays == { 3, 67 }

DaysArgs == { 7, 0 }

DetailRsps == Responses("ride", RidePayloads)

\* ride_stats reads and writes no field of the Athlete and keeps none of the
\* Rides it lists, so it is applied once to each fresh Athlete.
AthleteRideStats ==
    /\ last.op = "init"
    /\ \E today \in Todays, days \in DaysArgs, rspL \in ListingRsps :
       \E rspD \in [1..Len(rides(athlete, None, rspL).out) -> DetailRsps] :
         LET r == ride_stats(athlete, today, days, rspL, rspD)
         IN  /\ last' = Call("ride_stats", 0,
                             [today |-> today, days |-> days, rspL |-> rspL,
                              rspD |-> rspD],
                             r.exc, r.stats, r.gets)
    /\ nops' = nops + 1
    /\ UNCHANGED <<athlete, heap, obs, nextOid, recent, calls>>

NextStats == AthleteRideStats

SpecStats == Init /\ [][NextStats]_vars

\* The caller lists the rides twice, each listing holding one ride, and keeps
\* both Rides: two instances, of the same ride when the listings agree.
InitPair ==
    /\ athlete \in { Athlete(a) : a \in AthleteIds }
    /\ \E e1, e2 \in { x \in RideEntries : RideKeys \subseteq DOMAIN x } :
         LET r1 == rides(athlete, None, Body(Text(Mapping("rides" :> <<e1>>))))
             r2 == rides(athlete, None, Body(Text(Mapping("rides" :> <<e2>>))))
             c1 == Call("rides", 0, [start_date |-> None], r1.exc, r1.out,
                        r1.gets)
             c2 == Call("rides", 0, [start_date |-> None], r2.exc, r2.out,
                        r2.gets)
         IN  /\ heap = r1.out \o r2.out
             /\ obs = <<NewObs, NewObs>>
             /\ last = c2
             /\ recent = <<c1, c2>>
             /\ calls = [rides |-> 2, gets |-> Len(r1.gets) + Len(r2.gets)]
    /\ nextOid = 1
    /\ nops = 2

NextPair == RideDetailAccess \/ RideSegmentsAccess \/ SegmentDetailAccess

SpecPair == InitPair /\ [][NextPair]_vars

\* The caller of an Athlete: rides, with or without a start date, and
\* ride_stats.
NextAthlete == AthleteRides \/ AthleteRideStats

SpecAthlete == Init /\ [][NextAthlete]_vars

\* ================================================================ claims

\* What a response holds under a key, when it is a body whose JSON document
\* is a mapping with that key.
Holds(rsp, key) ==
    /\ rsp.kind = "body"
    /\ rsp.txt.valid
    /\ rsp.txt.doc.shape = "mapping"
    /\ key \in DOMAIN rsp.txt.doc.v

Held(rsp, key) == rsp.txt.doc.v[key]

\* The failures of a fetch the specification names: a non-success status, a
\* connection failure, a body that is no JSON, a mapping without the key.
NamedFailure(rsp, key) ==
    \/ rsp.kind \in {"HTTPError", "URLError"}
    \/ rsp.kind = "body" /\ ~rsp.txt.valid
    \/ rsp.kind = "body" /\ rsp.txt.valid /\ rsp.txt.doc.shape = "mapping"
          /\ key \notin DOMAIN rsp.txt.doc.v

\* C1: a Ride whose detail was read once or more, no read having failed, has
\* issued exactly one GET /rides/{id}, and every read returned the one
\* RideDetail instance the Ride holds.
C1_DetailFetchedOnce ==
    \A i \in 1..Len(heap) :
        (obs[i].dAcc >= 1 /\ obs[i].dFail = 0) =>
            /\ obs[i].dGets = 1
            /\ heap[i]._detail # None
            /\ obs[i].dRet = { heap[i]._detail[1].oid }

C1_Witness ==
    \E i \in 1..Len(heap) : obs[i].dAcc >= 2 /\ obs[i].dFail = 0

\* C2 (as stated): a Ride whose segments were read twice or more, no read
\* having failed, has issued exactly one GET /rides/{id}/efforts and every
\* read returned the same sequence.
C2_SegmentsFetchedOnce ==
    \A i \in 1..Len(heap) :
        (obs[i].eAcc >= 2 /\ obs[i].eFail = 0) =>
            /\ obs[i].eGets = 1
            /\ Cardinality(obs[i].eRet) = 1

\* C3 (as stated): load turns every transport failure, a non-success status
\* or a connection failure, into APIError.
C3_TransportFailureIsAPIError ==
    (last.op = "load" /\ last.in.rsp.kind \in {"HTTPError", "URLError"})
        => last.exc = "APIError"

\* C4 (as stated): given a body, load raises APIError and nothing else when
\* the body is no JSON or the decoded structure, whatever its shape, does not
\* contain the key, and otherwise returns the value under the key.
C4_DecodeFailureIsAPIError ==
    (last.op = "load" /\ last.in.rsp.kind = "body") =>
        IF Holds(last.in.rsp, last.in.key)
        THEN last.exc = "none" /\ last.val = Held(last.in.rsp, last.in.key)
        ELSE last.exc = "APIError"

\* C5 (as stated): a read of Ride.detail whose fetch fails (transport
\* failure, bad JSON or missing key) raises APIError, returns no RideDetail
\* and leaves the Ride's _detail unset.
C5_FailedDetailRaisesAPIError ==
    (/\ last.op = "Ride.detail"
     /\ Len(last.gets) = 1
     /\ NamedFailure(last.gets[1].rsp, "ride")) =>
        /\ last.exc = "APIError"
        /\ last.val = None
        /\ heap[last.target]._detail = None

\* C6 (as stated): a read of Segment.detail that constructs a SegmentDetail
\* returns only if both fetches succeeded; if the effort fetch or the segment
\* fetch fails it raises APIError, returns no SegmentDetail and leaves the
\* Segment's _detail unset.
C6_FailedSegmentDetailRaisesAPIError ==
    (last.op = "Segment.detail" /\ Len(last.gets) >= 1) =>
        LET bothOk == /\ Len(last.gets) = 2
                      /\ Holds(last.gets[1].rsp, "effort")
                      /\ Holds(last.gets[2].rsp, "segment")
            seg == heap[last.target[1]]._segments[last.target[2]]
        IN  /\ last.exc = "none" => bothOk
            /\ ~bothOk => /\ last.exc = "APIError"
                          /\ last.val = None
                          /\ seg._detail = None

\* The (id, name) pairs of a sequence of listing entries or of Rides.
EntryPairs(listing) == [k \in 1..Len(listing) |-> <<listing[k].id, listing[k].name>>]

RidePairs(rs) == [k \in 1..Len(rs) |-> <<rs[k]._id, rs[k]._name>>]

\* C7: rides() is never cached: as many listing GETs were issued as rides()
\* calls were made, each call issued exactly one, and the Rides a call
\* returned are those of the listing its own GET received.
C7_RidesNeverCached ==
    /\ calls.gets = calls.rides
    /\ \A k \in 1..Len(recent) :
          /\ Len(recent[k].gets) = 1
          /\ recent[k].exc = "none" =>
                /\ Holds(recent[k].gets[1].rsp, "rides")
                /\ RidePairs(recent[k].val)
                     = EntryPairs(Held(recent[k].gets[1].rsp, "rides"))

\* Two successive calls that returned different listings.
C7_Witness ==
    /\ Len(recent) = 2
    /\ recent[1].exc = "none"
    /\ recent[2].exc = "none"
    /\ RidePairs(recent[1].val) # RidePairs(recent[2].val)

\* C8: for a listing whose entries all carry id and name, rides() returns as
\* many Rides as the listing has entries, the i-th with the id and the name
\* of the i-th entry, each with nothing loaded yet.
C8_RidesPreserveListing ==
    (/\ last.op = "rides"
     /\ Holds(last.gets[1].rsp, "rides")
     /\ \A k \in 1..Len(Held(last.gets[1].rsp, "rides")) :
           RideKeys \subseteq DOMAIN Held(last.gets[1].rsp, "rides")[k]) =>
        LET listing == Held(last.gets[1].rsp, "rides")
        IN  /\ last.exc = "none"
            /\ Len(last.val) = Len(listing)
            /\ \A i \in 1..Len(listing) :
                  /\ last.val[i]._id = listing[i].id
                  /\ last.val[i]._name = listing[i].name

\* A returned listing of two different rides.
C8_Witness ==
    /\ last.op = "rides"
    /\ last.exc = "none"
    /\ Len(last.val) = 2
    /\ last.val[1]._id # last.val[2]._id

RECURSIVE SumOf(_, _, _)
SumOf(rsps, field, k) ==
    IF k > Len(rsps) THEN 0
    ELSE Held(rsps[k], "ride")[field] + SumOf(rsps, field, k + 1)

\* The listing a ride_stats call received holds n rides with id and name, and
\* every detail fetch succeeded.
StatsAllFetched(c) ==
    /\ c.op = "ride_stats"
    /\ Holds(c.in.rspL, "rides")
    /\ \A k \in 1..Len(Held(c.in.rspL, "rides")) :
          RideKeys \subseteq DOMAIN Held(c.in.rspL, "rides")[k]
    /\ \A k \in 1..Len(c.in.rspD) : Holds(c.in.rspD[k], "ride")

\* C9: over a listing of n rides whose details were all fetched, ride_stats
\* returns rides = n, moving_time = the sum of the moving times and
\* distance = the sum of the distances.
C9_StatsAreSums ==
    StatsAllFetched(last) =>
        /\ last.exc = "none"
        /\ Lookup(last.val, "rides") = Len(Held(last.in.rspL, "rides"))
        /\ Lookup(last.val, "moving_time") = SumOf(last.in.rspD, "movingTime", 1)
        /\ Lookup(last.val, "distance") = SumOf(last.in.rspD, "distance", 1)

\* Two rides with moving times 120 and 180 and distances 1000 and 2000.
C9_Witness ==
    /\ StatsAllFetched(last)
    /\ Len(last.in.rspD) = 2
    /\ Held(last.in.rspD[1], "ride") = [movingTime |-> 120, distance |-> 1000]
    /\ Held(last.in.rspD[2], "ride") = [movingTime |-> 180, distance |-> 2000]
    /\ Lookup(last.val, "rides") = 2
    /\ Lookup(last.val, "moving_time") = 300
    /\ Lookup(last.val, "distance") = 3000

StatsKeys == {"rides", "moving_time", "distance"}

\* C10 (as stated): the mapping ride_stats returns always contains the keys
\* rides, moving_time and distance, for an empty listing too.
C10_StatsHoldThreeKeys ==
    (last.op = "ride_stats" /\ last.exc = "none") =>
        StatsKeys \subseteq DOMAIN last.val

\* C10 (amended): the mapping ride_stats returns stores exactly the keys
\* rides, moving_time and distance when the listing holds a ride and stores no
\* key when the listing is empty; reading any of the three always yields a
\* number, zero for the empty listing.
C10_StatsKeysOrDefault ==
    (last.op = "ride_stats" /\ last.exc = "none") =>
        /\ DOMAIN last.val
             = IF Len(Held(last.in.rspL, "rides")) = 0 THEN {} ELSE StatsKeys
        /\ \A k \in StatsKeys : Lookup(last.val, k) \in Nat
        /\ Len(Held(last.in.rspL, "rides")) = 0 =>
              \A k \in StatsKeys : Lookup(last.val, k) = 0

\* ride_stats returned for an empty listing.
C10_Witness ==
    /\ last.op = "ride_stats"
    /\ last.exc = "none"
    /\ Len(Held(last.in.rspL, "rides")) = 0

\* C11: a ride_stats call that returned over a listing of n rides issued
\* exactly n + 1 requests: the listing first, then one GET /rides/{id} per
\* listed ride, in listing order, although detail is read twice per ride.
C11_StatsFetchCount ==
    (last.op = "ride_stats" /\ last.exc = "none") =>
        LET listing == Held(last.in.rspL, "rides")
        IN  /\ Len(last.gets) = Len(listing) + 1
            /\ last.gets[1].url[1] = "/rides?athleteId=%s"
            /\ \A k \in 1..Len(listing) :
                  last.gets[k + 1].url = <<"/rides/%s", listing[k].id>>

\* ride_stats returned over two listed rides.
C11_Witness ==
    /\ last.op = "ride_stats"
    /\ last.exc = "none"
    /\ Len(Held(last.in.rspL, "rides")) = 2
    /\ Len(last.gets) = 3

\* C12 (as stated): once a Ride's segments were read, whether the read
\* returned or raised, the cached sequence is empty or holds exactly one
\* Segment per entry of the efforts listing fetched, in order; never a prefix.
C12_NoPrefixCached ==
    \A i \in 1..Len(heap) :
        (obs[i].eAcc >= 1 /\ heap[i]._segments # <<>>) =>
            /\ obs[i].eList # None
            /\ Len(heap[i]._segments) = Len(obs[i].eList[1])
            /\ \A k \in 1..Len(heap[i]._segments) :
                  heap[i]._segments[k]._id = obs[i].eList[1][k].id

\* The effort entry the j-th Segment of the i-th Ride was constructed from.
EffortOf(i, j) == obs[i].eList[1][j]

\* C13: a Segment has the id of its effort entry, the name of the embedded
\* segment and the effort's elapsed_time; constructing it issued no request
\* beyond the efforts listing, reading name and time issues none, and a read
\* of detail that issues requests asks for /efforts/{effort id} first and
\* then for /segments/{embedded segment id}, both when it returns.
C13_SegmentFromEffort ==
    /\ \A i \in 1..Len(heap) : \A j \in 1..Len(heap[i]._segments) :
          /\ heap[i]._segments[j]._id = EffortOf(i, j).id
          /\ Segment_name(heap[i]._segments[j]) = EffortOf(i, j).segment.name
          /\ Segment_time(heap[i]._segments[j]) = EffortOf(i, j).elapsed_time
    /\ last.op = "Ride.segments" =>
          /\ Len(last.gets) = 1
          /\ last.gets[1].url = <<"/rides/%s/efforts", heap[last.target]._id>>
    /\ last.op = "Segment.name,time" =>
          /\ last.gets = <<>>
          /\ last.val.name = EffortOf(last.target[1], last.target[2]).segment.name
          /\ last.val.time = EffortOf(last.target[1], last.target[2]).elapsed_time
    /\ (last.op = "Segment.detail" /\ last.gets # <<>>) =>
          LET e == EffortOf(last.target[1], last.target[2])
          IN  /\ last.gets[1].url = <<"/efforts/%s", e.id>>
              /\ Len(last.gets) = 2 =>
                    last.gets[2].url = <<"/segments/%s", e.segment.id>>
              /\ last.exc = "none" => Len(last.gets) = 2

\* The effort {id: 5, elapsed_time: 42, segment: {id: 9, name: "Hill"}}: its
\* Segment's detail was resolved from /efforts/5 and /segments/9.
C13_Witness ==
    /\ last.op = "Segment.detail"
    /\ last.exc = "none"
    /\ EffortOf(1, 1) = [id |-> 5, elapsed_time |-> 42,
                         segment |-> [id |-> 9, name |-> "Hill"]]
    /\ Segment_name(heap[1]._segments[1]) = "Hill"
    /\ Segment_time(heap[1]._segments[1]) = 42
    /\ last.gets[1].url = <<"/efforts/%s", 5>>
    /\ last.gets[2].url = <<"/segments/%s", 9>>

\* C14 (as stated): a Segment whose detail is cached has issued two requests
\* in total, whatever the number of reads, and every read that returned gave
\* the cached instance.
C14_TwoFetchesInTotal ==
    \A i \in 1..Len(heap) : \A j \in 1..Len(heap[i]._segments) :
        heap[i]._segments[j]._detail # None =>
            /\ obs[i].seg[j].sGets = 2
            /\ obs[i].seg[j].sRet = { heap[i]._segments[j]._detail[1].oid }

\* C14 (amended): a Segment whose detail is cached got it from the one read
\* that issued requests and did not raise, which issued exactly two; every
\* read that returned gave the cached instance; the requests in total are
\* those two plus the one or two of each read that raised before, so two when
\* none raised.
C14_TwoFetchesPerSuccess ==
    /\ \A i \in 1..Len(heap) : \A j \in 1..Len(heap[i]._segments) :
          heap[i]._segments[j]._detail # None =>
              LET o == obs[i].seg[j]
              IN  /\ o.sTries = o.sFail + 1
                  /\ o.sRet = { heap[i]._segments[j]._detail[1].oid }
                  /\ o.sGets >= o.sFail + 2
                  /\ o.sGets <= 2 * o.sFail + 2
    /\ (last.op = "Segment.detail" /\ last.exc = "none" /\ last.gets # <<>>) =>
          /\ Len(last.gets) = 2
          /\ last.gets[1].url[1] = "/efforts/%s"
          /\ last.gets[2].url[1] = "/segments/%s"

\* A Segment's detail read three times without failure: two requests.
C14_Witness ==
    \E i \in 1..Len(heap) : \E j \in 1..Len(heap[i]._segments) :
        /\ obs[i].seg[j].sAcc >= 3
        /\ obs[i].seg[j].sFail = 0
        /\ obs[i].seg[j].sGets = 2

\* C15: every call of load issues exactly one request, for the url it was
\* given, whether it returns a value or raises; a failed request or a failed
\* decoding causes no second request.
C15_LoadOneRoundTrip ==
    last.op = "load" =>
        /\ Len(last.gets) = 1
        /\ last.gets[1].url = last.in.url
        /\ last.gets[1].rsp = last.in.rsp

\* A load whose decoding failed after its one request.
C15_Witness ==
    /\ last.op = "load"
    /\ last.exc = "APIError"
    /\ last.in.rsp.kind = "body"
    /\ Len(last.gets) = 1

\* C16: rides requests /rides?athleteId={id} when it is given no start date,
\* and that path followed by &startDate={ISO date of the start date} when it
\* is given one; ride_stats requests the listing with the start date
\* today - days.
C16_RidesPath ==
    LET path == <<"/rides?athleteId=%s", athlete._id>>
    IN  /\ last.op = "rides" =>
              /\ Len(last.gets) = 1
              /\ last.in.start_date = None => last.gets[1].url = path
              /\ last.in.start_date # None =>
                    last.gets[1].url =
                        path \o <<"&startDate=%s",
                                  isoformat(last.in.start_date[1])>>
        /\ last.op = "ride_stats" =>
              last.gets[1].url =
                  path \o <<"&startDate=%s",
                            isoformat(last.in.today - last.in.days)>>

\* ride_stats(7) on 2012-01-03 asked for the rides since 2011-12-27.
C16_Witness ==
    /\ last.op = "ride_stats"
    /\ last.in.today = 3
    /\ last.in.days = 7
    /\ last.gets[1].url = <<"/rides?athleteId=%s", 103227,
                            "&startDate=%s", <<2011, 12, 27>> >>

\* C17: a read of Segment.detail that issues requests asks for the effort
\* first; when the effort request or its decoding fails the segment is never
\* asked for, so the read raises after one request; it raises after two
\* exactly when the effort was obtained and only the segment failed.
C17_EffortFetchedFirst ==
    (last.op = "Segment.detail" /\ last.gets # <<>>) =>
        /\ last.gets[1].url[1] = "/efforts/%s"
        /\ ~Holds(last.gets[1].rsp, "effort") =>
              /\ last.exc # "none"
              /\ Len(last.gets) = 1
        /\ Holds(last.gets[1].rsp, "effort") =>
              /\ Len(last.gets) = 2
              /\ last.gets[2].url[1] = "/segments/%s"
              /\ last.exc # "none" <=> ~Holds(last.gets[2].rsp, "segment")

\* One Segment whose detail was read twice and raised twice: once after the
\* effort request alone, once after both requests.
C17_Witness ==
    \E i \in 1..Len(heap) : \E j \in 1..Len(heap[i]._segments) :
        /\ obs[i].seg[j].sFail = 2
        /\ obs[i].seg[j].sGets = 3
        /\ last.op = "Segment.detail"

\* C18: a read of Ride.detail or Segment.detail that raises caches nothing,
\* so as long as no read has returned every read issued its request(s) anew;
\* the first read that does not raise caches the detail, and every later
\* read returns that instance without a request.
C18_FailuresNotCached ==
    \A i \in 1..Len(heap) :
        /\ LET o == obs[i]
           IN  IF heap[i]._detail = None
               THEN /\ o.dFail = o.dAcc
                    /\ o.dGets = o.dAcc
                    /\ o.dRet = {}
               ELSE /\ o.dAcc > o.dFail
                    /\ o.dGets = o.dFail + 1
                    /\ o.dRet = { heap[i]._detail[1].oid }
        /\ \A j \in 1..Len(heap[i]._segments) :
              LET o == obs[i].seg[j]
              IN  IF heap[i]._segments[j]._detail = None
                  THEN /\ o.sFail = o.sAcc
                       /\ o.sTries = o.sAcc
                       /\ o.sGets >= o.sAcc
                       /\ o.sRet = {}
                  ELSE /\ o.sAcc > o.sFail
                       /\ o.sTries = o.sFail + 1
                       /\ o.sRet = { heap[i]._segments[j]._detail[1].oid }

\* A Ride whose detail raised APIError, was then fetched again and cached,
\* and was read once more without a request.
C18_Witness ==
    \E i \in 1..Len(heap) :
        /\ obs[i].dErr = {"APIError"}
        /\ obs[i].dFail = 1
        /\ obs[i].dAcc = 3
        /\ obs[i].dGets = 2
        /\ heap[i]._detail # None
        /\ last.op = "Ride.detail"
        /\ last.gets = <<>>

\* The listing of the ride_stats call c was obtained and every entry of it
\* became a Ride, and k is the first entry whose detail request or decoding
\* failed.
StatsFirstFailure(c, k) ==
    /\ c.op = "ride_stats"
    /\ Holds(c.in.rspL, "rides")
    /\ \A n \in 1..Len(Held(c.in.rspL, "rides")) :
          RideKeys \subseteq DOMAIN Held(c.in.rspL, "rides")[n]
    /\ k \in 1..Len(c.in.rspD)
    /\ ~Holds(c.in.rspD[k], "ride")
    /\ \A n \in 1..(k - 1) : Holds(c.in.rspD[n], "ride")

\* C20 (as stated): when the detail fetch of the k-th listed ride is the
\* first to fail, ride_stats raises APIError, returns no mapping, and has
\* issued exactly 1 + k requests: the listing and the details of rides 1..k.
C20_StatsFailureIsAPIError ==
    \A k \in 1..MaxListing :
        StatsFirstFailure(last, k) =>
            /\ last.exc = "APIError"
            /\ last.val = None
            /\ Len(last.gets) = 1 + k
            /\ \A n \in 1..k :
                  last.gets[n + 1].url
                      = <<"/rides/%s", Held(last.in.rspL, "rides")[n].id>>

\* The Ride a read was made on: the Ride itself, or the Ride whose Segment
\* was read.
OwnerOf(c) == IF c.op = "Segment.detail" THEN c.target[1] ELSE c.target

\* The cached fields of Rides and Segments are their own: a field differs
\* from its initial value only after a read on that instance, two Rides never
\* hold the same RideDetail or a common Segment, and a cached RideDetail was
\* fetched by a request of its own Ride.
PerInstance ==
    \A i \in 1..Len(heap) :
        /\ obs[i].dAcc = 0 => heap[i]._detail = None
        /\ obs[i].eAcc = 0 => heap[i]._segments = <<>>
        /\ heap[i]._detail # None => obs[i].dGets >= 1
        /\ \A j \in 1..Len(heap[i]._segments) :
              obs[i].seg[j].sAcc = 0 => heap[i]._segments[j]._detail = None
        /\ \A k \in 1..Len(heap) :
              k # i =>
                  /\ (heap[i]._detail # None /\ heap[k]._detail # None) =>
                        heap[i]._detail[1].oid # heap[k]._detail[1].oid
                  /\ \A a \in 1..Len(heap[i]._segments) :
                     \A b \in 1..Len(heap[k]._segments) :
                        heap[i]._segments[a].oid # heap[k]._segments[b].oid

\* A read of detail or segments on one Ride, or of detail on one Segment,
\* changes no field of any other Ride and of no other Segment.
FrameOfRead ==
    last'.op \in {"Ride.detail", "Ride.segments", "Segment.detail"} =>
        /\ Len(heap') = Len(heap)
        /\ \A i \in 1..Len(heap) :
              i # OwnerOf(last') => heap'[i] = heap[i]
        /\ last'.op = "Segment.detail" =>
              LET i == last'.target[1]
              IN  /\ heap'[i]._detail = heap[i]._detail
                  /\ Len(heap'[i]._segments) = Len(heap[i]._segments)
                  /\ \A j \in 1..Len(heap[i]._segments) :
                        j # last'.target[2] =>
                            heap'[i]._segments[j] = heap[i]._segments[j]

\* C19: the lazy caches are per instance. Resolving detail or segments on one
\* Ride, or detail on one Segment, leaves the fields of every other instance
\* unchanged, an instance with the same id included; two Rides of the same
\* ride obtained from two rides() calls each issue their own detail request
\* and never share Segments.
C19_CachesPerInstance == []PerInstance /\ [][FrameOfRead]_vars

\* Two Rides of the same ride, from two listings, each with its own
\* RideDetail obtained by its own request.
C19_Witness ==
    /\ Len(heap) = 2
    /\ heap[1]._id = heap[2]._id
    /\ heap[1]._detail # None
    /\ heap[2]._detail # None
    /\ heap[1]._detail[1].oid # heap[2]._detail[1].oid
    /\ obs[1].dGets = 1
    /\ obs[2].dGets = 1

====
